---- MODULE Spec2Model ----
(***************************************************************************)
(* gen_report: aggregation of weekly member reports into one department    *)
(* report through a single LLM call (src/src/gen_report/__main__.py).      *)
(*                                                                         *)
(* Strings are sequences of one-character strings.  The CJK characters of  *)
(* the source are written in pinyin, one TLA+ string per source character: *)
(*   "gong","zuo","bao","gao" = the four characters of the report marker,  *)
(*   "zhi" = the possessive particle that starts TEAM_REPORT_HINT,         *)
(*   "bu","men" = the two characters of "department".                      *)
(* File texts are sequences of tokens: " " is a whitespace character, any  *)
(* other token is a run of non-whitespace text.                            *)
(***************************************************************************)
EXTENDS Integers, Sequences, FiniteSets, TLC

VARIABLES
    pc,               \* position of the run in the entry point, or in the function applied
    source,           \* args.source: [exists, files]
    examples_dirs,    \* args.examples: sequence of [exists, files]
    dry_run,          \* args.dry_run
    env_keys,         \* names of the provider API-key variables that are set
    member_markdowns, \* gather_member_markdowns(source_dir)
    examples,         \* merged: the ExampleWeeks in dict insertion order
    examples_block,   \* build_few_shot_examples(examples)
    prompt,           \* build_prompt(member_markdowns, examples_block)
    report_md,        \* what call_llm returned: [none, text]
    stdout,           \* what was printed, one element per print call
    stderr,           \* what was written to standard error
    out_file,         \* the file at args.out: [exists, text]
    llm_requests,     \* the requests the provider received, in order
    exit_code,        \* process exit status once pc = "exited"
    folder,           \* the directory handed to collect_examples / gather_member_markdowns
    weeks,            \* collect_examples(folder)
    dirs_done,        \* number of example directories merged so far
    chunks_seen,      \* the <<date, chunk>> pairs the merged directories held
    first_week,       \* per date, the week of the first merged directory that had the date
    llm_response      \* what the provider answered to the request

vars == <<pc, source, examples_dirs, dry_run, env_keys, member_markdowns, examples,
          examples_block, prompt, report_md, stdout, stderr, out_file, llm_requests,
          exit_code, folder, weeks, dirs_done, chunks_seen, first_week, llm_response>>

-----------------------------------------------------------------------------
(* Bounds of the model                                                     *)

MaxFiles == 3        \* files in a directory handed to collect_examples
MaxDirs == 2         \* example directories of a run
MaxSourceFiles == 2  \* files in the source directory of a run

-----------------------------------------------------------------------------
(* Strings                                                                 *)

Digits == {"0", "1", "2", "3", "4", "5", "6", "7", "8", "9"}
Whitespace == {" ", "\n", "\t"}

\* s[i .. i+Len(lit)-1] = lit
MatchAt(s, i, lit) ==
    /\ i >= 1
    /\ i + Len(lit) - 1 <= Len(s)
    /\ \A j \in 1..Len(lit) : s[i + j - 1] = lit[j]

\* Python's  lit in s
Contains(s, lit) == \E i \in 1..(Len(s) + 1) : MatchAt(s, i, lit)

\* str.strip()
Strip(t) ==
    LET keep == {i \in 1..Len(t) : t[i] \notin Whitespace}
    IN  IF keep = {} THEN <<>>
        ELSE LET lo == CHOOSE i \in keep : \A j \in keep : i <= j
                 hi == CHOOSE i \in keep : \A j \in keep : j <= i
             IN  SubSeq(t, lo, hi)

\* str.lower() on the letters a file suffix can hold here
Lower(c) ==
    CASE c = "M" -> "m" [] c = "D" -> "d" [] c = "O" -> "o"
      [] c = "C" -> "c" [] c = "X" -> "x" [] OTHER -> c

\* pathlib's PurePath.suffix followed by .lower()
Suffix(name) ==
    LET dots == {i \in 1..Len(name) : name[i] = "."}
    IN  IF dots = {} THEN <<>>
        ELSE LET i == CHOOSE d \in dots : \A e \in dots : e <= d
             IN  IF 1 < i /\ i < Len(name)
                 THEN [j \in 1..(Len(name) - i + 1) |-> Lower(name[i + j - 1])]
                 ELSE <<>>

\* lexicographic order of two strings of digits (Python's str <)
RECURSIVE StrLess(_, _)
StrLess(a, b) ==
    IF b = <<>> THEN FALSE
    ELSE IF a = <<>> THEN TRUE
    ELSE IF Head(a) = Head(b) THEN StrLess(Tail(a), Tail(b))
    ELSE \E x \in 0..9, y \in 0..9 :
            /\ x < y
            /\ Head(a) = ToString(x)
            /\ Head(b) = ToString(y)

-----------------------------------------------------------------------------
(* MEMBER_REPORT_REGEX and TEAM_REPORT_HINT                                *)

REPORT_DASH == <<"gong", "zuo", "bao", "gao", "-">>
TEAM_REPORT_HINT == <<"zhi", "gong", "zuo", "bao", "gao">>
\* the alternation (docx|doc|md), in the order the pattern tries it
EXTENSIONS == << <<"d", "o", "c", "x">>, <<"d", "o", "c">>, <<"m", "d">> >>

\* The name group has k characters and the rest of s is
\* REPORT_DASH, eight digits, ".", the i-th extension, and the end of the
\* string ($ also matches before one trailing newline).
MatchesWith(s, k, i) ==
    LET ext == EXTENSIONS[i]
        d0 == k + Len(REPORT_DASH)
        e0 == d0 + 8 + 1
        end == e0 + Len(ext)
    IN  /\ k >= 1
        /\ \A j \in 1..k : j <= Len(s) /\ s[j] # "\n"
        /\ MatchAt(s, k + 1, REPORT_DASH)
        /\ d0 + 8 <= Len(s)
        /\ \A j \in 1..8 : s[d0 + j] \in Digits
        /\ e0 <= Len(s)
        /\ s[e0] = "."
        /\ MatchAt(s, e0 + 1, ext)
        /\ \/ end = Len(s)
           \/ end + 1 = Len(s) /\ s[Len(s)] = "\n"

\* MEMBER_REPORT_REGEX.match(s): [ok, name, date, ext]; the lazy name group
\* takes the shortest name that lets the rest match.
MemberMatch(s) ==
    LET ks == {k \in 1..Len(s) : \E i \in 1..Len(EXTENSIONS) : MatchesWith(s, k, i)}
    IN  IF ks = {} THEN [ok |-> FALSE, name |-> <<>>, date |-> <<>>, ext |-> <<>>]
        ELSE LET k == CHOOSE x \in ks : \A y \in ks : x <= y
                 is == {i \in 1..Len(EXTENSIONS) : MatchesWith(s, k, i)}
                 i == CHOOSE x \in is : \A y \in is : x <= y
             IN  [ok |-> TRUE,
                  name |-> SubSeq(s, 1, k),
                  date |-> SubSeq(s, k + Len(REPORT_DASH) + 1, k + Len(REPORT_DASH) + 8),
                  ext |-> EXTENSIONS[i]]

-----------------------------------------------------------------------------
(* Files and text extraction                                               *)

\* A directory entry: its name, whether it is a regular file, whether it can
\* be read (or converted), and the text a successful read or conversion gives.
File(name, is_file, ok, text) ==
    [name |-> name, is_file |-> is_file, ok |-> ok, text |-> text]

\* mammoth.convert_to_markdown(f).value.strip(), "" when the conversion raises
convert_docx_to_markdown(f) == IF f.ok THEN Strip(f.text) ELSE <<>>

load_markdown_from_file(f) ==
    LET ext == Suffix(f.name)
    IN  IF ext = <<".", "m", "d">>
        THEN (IF f.ok THEN Strip(f.text) ELSE <<>>)
        ELSE IF ext \in {<<".", "d", "o", "c", "x">>, <<".", "d", "o", "c">>}
        THEN convert_docx_to_markdown(f)
        ELSE <<>>

\* the (name, date, path) triples the generator yields, in listing order
RECURSIVE iter_member_reports(_)
iter_member_reports(files) ==
    IF files = <<>> THEN <<>>
    ELSE LET p == Head(files)
             m == MemberMatch(p.name)
             rest == iter_member_reports(Tail(files))
         IN  IF ~p.is_file THEN rest
             ELSE IF ~m.ok THEN rest
             ELSE <<[name |-> m.name, date |-> m.date, path |-> p]>> \o rest

\* f"# {name}\n\n{text}"
Chunk(name, text) == <<"#", " ">> \o name \o <<"\n", "\n">> \o text

RECURSIVE ChunksOf(_)
ChunksOf(reports) ==
    IF reports = <<>> THEN <<>>
    ELSE LET r == Head(reports)
             text == load_markdown_from_file(r.path)
             rest == ChunksOf(Tail(reports))
         IN  IF text = <<>> THEN rest ELSE <<Chunk(r.name, text)>> \o rest

gather_member_markdowns(source_dir) == ChunksOf(iter_member_reports(source_dir.files))

-----------------------------------------------------------------------------
(* ExampleCollector                                                        *)

ExampleWeek(date, member_reports, team_report) ==
    [date |-> date, member_reports |-> member_reports, team_report |-> team_report]

\* by_date.setdefault(date, []).append(chunk), the dict kept in insertion order
SetDefaultAppend(by_date, date, chunk) ==
    IF \E i \in 1..Len(by_date) : by_date[i].date = date
    THEN [i \in 1..Len(by_date) |->
             IF by_date[i].date = date
             THEN [by_date[i] EXCEPT !.chunks = Append(@, chunk)]
             ELSE by_date[i]]
    ELSE Append(by_date, [date |-> date, chunks |-> <<chunk>>])

RECURSIVE GroupByDate(_, _)
GroupByDate(reports, by_date) ==
    IF reports = <<>> THEN by_date
    ELSE LET r == Head(reports)
             text == load_markdown_from_file(r.path)
         IN  IF text = <<>> THEN GroupByDate(Tail(reports), by_date)
             ELSE GroupByDate(Tail(reports),
                              SetDefaultAppend(by_date, r.date, Chunk(r.name, text)))

IsTeamCandidate(p) == p.is_file /\ Contains(p.name, TEAM_REPORT_HINT)

TeamCandidates(files) == SelectSeq(files, IsTeamCandidate)

\* the text the inner for loop leaves in team_text: that of the first
\* candidate whose name holds the date, "" when there is none
DateMatchText(team_candidates, date) ==
    LET hits == {i \in 1..Len(team_candidates) : Contains(team_candidates[i].name, date)}
    IN  IF hits = {} THEN <<>>
        ELSE load_markdown_from_file(team_candidates[CHOOSE i \in hits : \A j \in hits : i <= j])

\* TeamTextFor with the fallback taken only when no candidate name holds the date
TeamTextDatedOnly(team_candidates, date) ==
    IF \E i \in 1..Len(team_candidates) : Contains(team_candidates[i].name, date)
    THEN DateMatchText(team_candidates, date)
    ELSE IF team_candidates # <<>> THEN load_markdown_from_file(team_candidates[1])
    ELSE <<>>

TeamTextFor(team_candidates, date) ==
    LET team_text == DateMatchText(team_candidates, date)
    IN  IF team_text = <<>> /\ team_candidates # <<>>
        THEN load_markdown_from_file(team_candidates[1])
        ELSE team_text

RECURSIVE WeeksFrom(_, _)
WeeksFrom(by_date, team_candidates) ==
    IF by_date = <<>> THEN <<>>
    ELSE LET g == Head(by_date)
             team_text == TeamTextFor(team_candidates, g.date)
             rest == WeeksFrom(Tail(by_date), team_candidates)
         IN  IF team_text # <<>>
             THEN <<ExampleWeek(g.date, g.chunks, team_text)>> \o rest
             ELSE rest

collect_examples(examples_dir) ==
    IF ~examples_dir.exists THEN <<>>
    ELSE WeeksFrom(GroupByDate(iter_member_reports(examples_dir.files), <<>>),
                   TeamCandidates(examples_dir.files))

\* AppendUnseen without the seen set: every report is appended
AppendAll(existing, news) == existing \o news

\* existing.member_reports after the loop over w.member_reports
RECURSIVE AppendUnseen(_, _)
AppendUnseen(existing, news) ==
    IF news = <<>> THEN existing
    ELSE IF \E i \in 1..Len(existing) : existing[i] = Head(news)
         THEN AppendUnseen(existing, Tail(news))
         ELSE AppendUnseen(Append(existing, Head(news)), Tail(news))

\* one iteration of  for w in collect_examples(d)
MergeWeek(merged, w) ==
    IF ~\E i \in 1..Len(merged) : merged[i].date = w.date
    THEN Append(merged, ExampleWeek(w.date, w.member_reports, w.team_report))
    ELSE [i \in 1..Len(merged) |->
             IF merged[i].date = w.date
             THEN ExampleWeek(
                      w.date,
                      AppendUnseen(merged[i].member_reports, w.member_reports),
                      IF merged[i].team_report = <<>> /\ w.team_report # <<>>
                      THEN w.team_report ELSE merged[i].team_report)
             ELSE merged[i]]

\* one iteration of  for d in example_dirs, given collect_examples(d)
RECURSIVE MergeWeeks(_, _)
MergeWeeks(merged, ws) ==
    IF ws = <<>> THEN merged ELSE MergeWeeks(MergeWeek(merged, Head(ws)), Tail(ws))

RECURSIVE MergeDirs(_, _)
MergeDirs(merged, dirs) ==
    IF dirs = <<>> THEN merged
    ELSE MergeDirs(MergeWeeks(merged, collect_examples(Head(dirs))), Tail(dirs))

collect_examples_from_dirs(example_dirs) ==
    IF example_dirs = <<>> THEN <<>> ELSE MergeDirs(<<>>, example_dirs)

-----------------------------------------------------------------------------
(* PromptBuilder                                                           *)

\* sep.join(parts), each part a string
RECURSIVE Join(_, _)
Join(sep, parts) ==
    IF parts = <<>> THEN <<>>
    ELSE IF Len(parts) = 1 THEN parts[1]
    ELSE parts[1] \o sep \o Join(sep, Tail(parts))

\* sorted(weeks, key=lambda w: w.date, reverse=True): a stable sort, so weeks
\* of equal date keep their order
\* InsertDesc without reverse=True: ascending order
RECURSIVE InsertAsc(_, _)
InsertAsc(sorted, w) ==
    IF sorted = <<>> THEN <<w>>
    ELSE IF StrLess(w.date, Head(sorted).date) THEN <<w>> \o sorted
    ELSE <<Head(sorted)>> \o InsertAsc(Tail(sorted), w)

RECURSIVE InsertDesc(_, _)
InsertDesc(sorted, w) ==
    IF sorted = <<>> THEN <<w>>
    ELSE IF StrLess(Head(sorted).date, w.date) THEN <<w>> \o sorted
    ELSE <<Head(sorted)>> \o InsertDesc(Tail(sorted), w)

RECURSIVE SortedDesc(_)
SortedDesc(ws) ==
    IF ws = <<>> THEN <<>>
    ELSE InsertDesc(SortedDesc(SubSeq(ws, 1, Len(ws) - 1)), ws[Len(ws)])

EXAMPLE_OPEN == "<EXAMPLE_WEEK date="
EXAMPLE_CLOSE == "</EXAMPLE_WEEK>"

ExampleBlock(w) ==
    <<EXAMPLE_OPEN>> \o w.date \o <<">", "\n", "<INPUT>", "\n">>
    \o Join(<<"\n">>, w.member_reports)
    \o <<"\n", "</INPUT>", "\n", "<OUTPUT>", "\n">>
    \o w.team_report
    \o <<"\n", "</OUTPUT>", "\n", EXAMPLE_CLOSE>>

build_few_shot_examples(ws) ==
    IF ws = <<>> THEN <<>>
    ELSE LET weeks_sorted == SortedDesc(ws)
         IN  Join(<<"\n", "\n">>,
                  [i \in 1..Len(weeks_sorted) |-> ExampleBlock(weeks_sorted[i])])

FEW_SHOT_HEADER == "FEW-SHOT EXAMPLES:"
TARGET_HEADER == "TARGET INPUT:"

ReportBlock(i, txt) ==
    <<"<REPORT index=", ToString(i), ">", "\n">> \o txt \o <<"\n", "</REPORT>">>

build_prompt(markdowns, block) ==
    LET input_block ==
            Join(<<"\n", "\n">>, [i \in 1..Len(markdowns) |-> ReportBlock(i, markdowns[i])])
    IN  <<"intro", "\n", "instructions", "\n">>
        \o (IF block # <<>>
            THEN <<"\n", FEW_SHOT_HEADER, "\n">> \o block \o <<"\n">>
            ELSE <<>>)
        \o <<"\n", TARGET_HEADER, "\n">> \o input_block
        \o <<"\n", "\n", "Generate the consolidated department weekly report in markdown now.">>

-----------------------------------------------------------------------------
(* The bounded inputs: file names, texts and directory listings           *)

DATE_1218 == <<"2", "0", "2", "3", "1", "2", "1", "8">>
DATE_1225 == <<"2", "0", "2", "3", "1", "2", "2", "5">>

\* <name>gongzuobaogao-<date>.<ext>
ReportName(author, date, ext) == author \o REPORT_DASH \o date \o <<".">> \o ext

AliceMd1218 == ReportName(<<"A">>, DATE_1218, <<"m", "d">>)
AliceDocx1218 == ReportName(<<"A">>, DATE_1218, <<"d", "o", "c", "x">>)
AliceMd1225 == ReportName(<<"A">>, DATE_1225, <<"m", "d">>)
BobDocx1218 == ReportName(<<"B">>, DATE_1218, <<"d", "o", "c", "x">>)
\* a department report that carries its date, and one that does not
TeamMd1218 == ReportName(<<"bu", "men", "zhi">>, DATE_1218, <<"m", "d">>)
TeamMdUndated == <<"bu", "men">> \o TEAM_REPORT_HINT \o <<".", "m", "d">>
NotesTxt == <<"n", "o", "t", "e", "s", ".", "t", "x", "t">>

BLANK == <<" ">>
TEXT_X == <<"x">>
TEXT_Y == <<" ", "y", "\n">>

\* The entries an example directory can hold: member reports of one author in
\* two formats and for two weeks, a department report that carries its date
\* and one that does not, with blank text and two different texts; one file
\* that cannot be read, and a subdirectory named like a report.
ExampleEntries ==
    { File(AliceMd1218, TRUE, TRUE, BLANK),
      File(AliceMd1218, TRUE, TRUE, TEXT_X),
      File(AliceMd1218, TRUE, TRUE, TEXT_Y),
      File(AliceDocx1218, TRUE, TRUE, TEXT_X),
      File(AliceDocx1218, TRUE, TRUE, TEXT_Y),
      File(AliceMd1225, TRUE, TRUE, TEXT_X),
      File(TeamMd1218, TRUE, TRUE, BLANK),
      File(TeamMd1218, TRUE, TRUE, TEXT_X),
      File(TeamMd1218, TRUE, TRUE, TEXT_Y),
      File(TeamMd1218, FALSE, FALSE, <<>>),
      File(TeamMdUndated, TRUE, TRUE, TEXT_X),
      File(TeamMdUndated, TRUE, TRUE, TEXT_Y),
      File(TeamMdUndated, TRUE, FALSE, <<>>) }

\* the entries the source directory of a run can hold
SourceEntries ==
    {File(n, TRUE, TRUE, t) : n \in {AliceMd1218, BobDocx1218, NotesTxt},
                              t \in {BLANK, TEXT_X}}

\* the listings of exactly n entries with pairwise different names
RECURSIVE ListingsOfLen(_, _)
ListingsOfLen(entries, n) ==
    IF n = 0 THEN {<<>>}
    ELSE {Append(l, e) : <<l, e>> \in
            {x \in ListingsOfLen(entries, n - 1) \X entries :
                \A i \in 1..Len(x[1]) : x[1][i].name # x[2].name}}

Listings(entries, max) == UNION {ListingsOfLen(entries, n) : n \in 0..max}

NoDir == [exists |-> FALSE, files |-> <<>>]
Dir(files) == [exists |-> TRUE, files |-> files]

ExampleFolders == {NoDir} \cup {Dir(l) : l \in Listings(ExampleEntries, MaxFiles)}

NoFile == [exists |-> FALSE, text |-> <<>>]
OldFile == [exists |-> TRUE, text |-> <<"old">>]

-----------------------------------------------------------------------------
(* LLMInvoker                                                              *)

\* Optional[str]
None == [none |-> TRUE, text |-> <<>>]
Str(text) == [none |-> FALSE, text |-> text]
\* Python truthiness of an Optional[str]
Truthy(v) == ~v.none /\ v.text # <<>>

\* A response of acompletion.  raises: the request raised.  style: "object"
\* (attributes), "dict" (a mapping) or "other" (neither).  choices: "none",
\* "list" or "scalar" (a truthy value that cannot be indexed); items: the
\* list.  A choice has a message, "none", "empty" (a falsy mapping) or
\* "some", and the message a content.
Response(raises, style, choices, items) ==
    [raises |-> raises, style |-> style, choices |-> choices, items |-> items]
ChoiceOf(message, content) == [message |-> message, content |-> content]

NoResponse == Response(FALSE, "other", "none", <<>>)
REPLY == <<"r">>

Responses ==
    { Response(TRUE, "other", "none", <<>>),
      Response(FALSE, "object", "none", <<>>),
      Response(FALSE, "object", "list", <<>>),
      Response(FALSE, "dict", "scalar", <<>>),
      Response(FALSE, "object", "list", <<ChoiceOf("none", None)>>),
      Response(FALSE, "dict", "list", <<ChoiceOf("empty", None)>>),
      Response(FALSE, "object", "list", <<ChoiceOf("some", None)>>),
      Response(FALSE, "object", "list", <<ChoiceOf("some", Str(<<>>))>>),
      Response(FALSE, "object", "list", <<ChoiceOf("some", Str(REPLY))>>),
      Response(FALSE, "dict", "list", <<ChoiceOf("some", Str(REPLY))>>) }

\* the request or the extraction raises an Exception
Raises(resp) == resp.raises \/ (resp.style # "other" /\ resp.choices = "scalar")

\* lines 195-209: the value call_llm returns when nothing raises
ExtractContent(resp) ==
    IF resp.style = "other" \/ resp.choices = "none" \/ resp.items = <<>> THEN None
    ELSE LET first == resp.items[1]
         IN  IF first.message # "some" THEN None ELSE first.content

ERROR_LINE == <<"error occurred: ", "Traceback (most recent call last): ...">>

\* call_llm with an except clause that prints nothing
call_llm_silent(resp) ==
    [value |-> IF Raises(resp) THEN None ELSE ExtractContent(resp), printed |-> <<>>]

\* call_llm: [value, printed], printed being what it prints on standard output
call_llm(resp) ==
    IF Raises(resp)
    THEN [value |-> None, printed |-> <<ERROR_LINE>>]
    ELSE [value |-> ExtractContent(resp), printed |-> <<>>]

PROVIDER_KEYS ==
    {"GOOGLE_API_KEY", "GEMINI_API_KEY", "OPENAI_API_KEY", "ANTHROPIC_API_KEY",
     "AZURE_OPENAI_API_KEY", "GROQ_API_KEY"}

\* ensure_api_key_present(): TRUE when it returns, FALSE when it raises
\* RuntimeError.  The entry point never calls it.
ensure_api_key_present(keys) == keys \cap PROVIDER_KEYS # {}

-----------------------------------------------------------------------------
(* collect_examples and gather_member_markdowns on one directory           *)

\* the variables that applying single functions leaves at their initial value
Idle ==
    /\ source = NoDir
    /\ examples_dirs = <<>>
    /\ dry_run = FALSE
    /\ env_keys = {}
    /\ report_md = None
    /\ stdout = <<>>
    /\ stderr = <<>>
    /\ out_file = NoFile
    /\ llm_requests = <<>>
    /\ llm_response = NoResponse
    /\ exit_code = 0

InitCollect ==
    /\ pc = "collect"
    /\ folder \in ExampleFolders
    /\ weeks = <<>>
    /\ member_markdowns = <<>>
    /\ examples = <<>>
    /\ examples_block = <<>>
    /\ prompt = <<>>
    /\ dirs_done = 0
    /\ chunks_seen = {}
    /\ first_week = {}
    /\ Idle

Collect ==
    /\ pc = "collect"
    /\ weeks' = collect_examples(folder)
    /\ pc' = "gather"
    /\ UNCHANGED <<source, examples_dirs, dry_run, env_keys, member_markdowns, examples,
                   examples_block, prompt, report_md, stdout, stderr, out_file,
                   llm_requests, exit_code, folder, dirs_done, chunks_seen, first_week,
                   llm_response>>

Gather ==
    /\ pc = "gather"
    /\ folder.exists
    /\ member_markdowns' = gather_member_markdowns(folder)
    /\ pc' = "gathered"
    /\ UNCHANGED <<source, examples_dirs, dry_run, env_keys, examples,
                   examples_block, prompt, report_md, stdout, stderr, out_file,
                   llm_requests, exit_code, folder, weeks, dirs_done, chunks_seen,
                   first_week, llm_response>>

NextCollect == Collect \/ Gather

SpecCollect == InitCollect /\ [][NextCollect]_vars

-----------------------------------------------------------------------------
(* collect_examples_from_dirs, one directory at a time, then the prompt    *)

\* what collect_examples returns on the example directories
WeeksOf == {collect_examples(d) : d \in ExampleFolders}

\* the non-empty lists gather_member_markdowns returns on the source directories
SourceFolders == {NoDir} \cup {Dir(l) : l \in Listings(SourceEntries, MaxSourceFiles)}
MarkdownsOf == {gather_member_markdowns(d) : d \in SourceFolders} \ {<<>>}

InitMerge ==
    /\ pc = "merge"
    /\ folder = NoDir
    /\ weeks = <<>>
    /\ member_markdowns = <<>>
    /\ examples = <<>>
    /\ examples_block = <<>>
    /\ prompt = <<>>
    /\ dirs_done = 0
    /\ chunks_seen = {}
    /\ first_week = {}
    /\ Idle

\* one iteration of the loop over example_dirs (lines 110-127)
MergeDir ==
    /\ pc = "merge"
    /\ dirs_done < MaxDirs
    /\ \E ws \in WeeksOf :
        /\ examples' = MergeWeeks(examples, ws)
        /\ chunks_seen' = chunks_seen \cup
               {<<ws[i].date, ws[i].member_reports[j]>> :
                    <<i, j>> \in {x \in (1..Len(ws)) \X (1..MaxFiles) :
                                     x[2] <= Len(ws[x[1]].member_reports)}}
        /\ first_week' = first_week \cup
               {ws[i] : i \in {k \in 1..Len(ws) :
                                  \A w \in first_week : w.date # ws[k].date}}
    /\ dirs_done' = dirs_done + 1
    /\ UNCHANGED <<pc, source, examples_dirs, dry_run, env_keys, member_markdowns,
                   examples_block, prompt, report_md, stdout, stderr, out_file,
                   llm_requests, exit_code, folder, weeks, llm_response>>

BuildFewShot ==
    /\ pc = "merge"
    /\ examples_block' = build_few_shot_examples(examples)
    /\ pc' = "prompt"
    /\ UNCHANGED <<source, examples_dirs, dry_run, env_keys, member_markdowns, examples,
                   prompt, report_md, stdout, stderr, out_file, llm_requests, exit_code,
                   folder, weeks, dirs_done, chunks_seen, first_week, llm_response>>

BuildPrompt ==
    /\ pc = "prompt"
    /\ \E mm \in MarkdownsOf :
        /\ member_markdowns' = mm
        /\ prompt' = build_prompt(mm, examples_block)
    /\ pc' = "built"
    /\ UNCHANGED <<source, examples_dirs, dry_run, env_keys, examples, examples_block,
                   report_md, stdout, stderr, out_file, llm_requests, exit_code,
                   folder, weeks, dirs_done, chunks_seen, first_week, llm_response>>

NextMerge == MergeDir \/ BuildFewShot \/ BuildPrompt

SpecMerge == InitMerge /\ [][NextMerge]_vars

-----------------------------------------------------------------------------
(* Runner: the entry point, lines 275-300                                  *)

\* example directories of a run: a missing one, and one that holds a member
\* report and a department report
RunExampleFolders ==
    { NoDir,
      Dir(<<File(AliceMd1225, TRUE, TRUE, TEXT_Y), File(TeamMdUndated, TRUE, TRUE, TEXT_X)>>) }

RECURSIVE SeqsOfLen(_, _)
SeqsOfLen(S, n) ==
    IF n = 0 THEN {<<>>}
    ELSE {Append(q, x) : <<q, x>> \in SeqsOfLen(S, n - 1) \X S}

SOURCE_NOT_FOUND == <<"Source folder not found: ", "source_dir">>
NO_VALID_REPORTS == <<"No valid member reports found in source folder.">>
REPORT_WRITTEN == <<"Report written to ", "out_path">>

Init ==
    /\ pc = "start"
    /\ source \in SourceFolders
    /\ examples_dirs \in UNION {SeqsOfLen(RunExampleFolders, n) : n \in 0..MaxDirs}
    /\ dry_run \in BOOLEAN
    /\ env_keys \in {{}, {"GOOGLE_API_KEY"}}
    /\ out_file \in {NoFile, OldFile}
    /\ member_markdowns = <<>>
    /\ examples = <<>>
    /\ examples_block = <<>>
    /\ prompt = <<>>
    /\ report_md = None
    /\ stdout = <<>>
    /\ stderr = <<>>
    /\ llm_requests = <<>>
    /\ llm_response = NoResponse
    /\ exit_code = 0
    /\ folder = NoDir
    /\ weeks = <<>>
    /\ dirs_done = 0
    /\ chunks_seen = {}
    /\ first_week = {}

\* raise SystemExit(message): the message goes to standard error, status 1
SystemExit(message) ==
    /\ stderr' = Append(stderr, message)
    /\ exit_code' = 1
    /\ pc' = "exited"

\* lines 278-280
CheckSource ==
    /\ pc = "start"
    /\ IF ~source.exists
       THEN SystemExit(SOURCE_NOT_FOUND)
       ELSE pc' = "gather" /\ UNCHANGED <<stderr, exit_code>>
    /\ UNCHANGED <<source, examples_dirs, dry_run, env_keys, member_markdowns, examples,
                   examples_block, prompt, report_md, stdout, out_file, llm_requests,
                   folder, weeks, dirs_done, chunks_seen, first_week, llm_response>>

\* GatherReports without the exit on an empty list
GatherReportsNoExit ==
    /\ pc = "gather"
    /\ member_markdowns' = gather_member_markdowns(source)
    /\ pc' = "examples"
    /\ UNCHANGED <<source, examples_dirs, dry_run, env_keys, examples,
                   examples_block, prompt, report_md, stdout, out_file, llm_requests,
                   folder, weeks, dirs_done, chunks_seen, first_week, llm_response,
                   stderr, exit_code>>

\* lines 283-285
GatherReports ==
    /\ pc = "gather"
    /\ member_markdowns' = gather_member_markdowns(source)
    /\ IF member_markdowns' = <<>>
       THEN SystemExit(NO_VALID_REPORTS)
       ELSE pc' = "examples" /\ UNCHANGED <<stderr, exit_code>>
    /\ UNCHANGED <<source, examples_dirs, dry_run, env_keys, examples,
                   examples_block, prompt, report_md, stdout, out_file, llm_requests,
                   folder, weeks, dirs_done, chunks_seen, first_week, llm_response>>

\* lines 286-288
BuildRunPrompt ==
    /\ pc = "examples"
    /\ examples' = collect_examples_from_dirs(examples_dirs)
    /\ examples_block' = build_few_shot_examples(examples')
    /\ prompt' = build_prompt(member_markdowns, examples_block')
    /\ pc' = "dry_run"
    /\ UNCHANGED <<source, examples_dirs, dry_run, env_keys, member_markdowns,
                   report_md, stdout, stderr, out_file, llm_requests, exit_code,
                   folder, weeks, dirs_done, chunks_seen, first_week, llm_response>>

\* lines 290-291
PrintIfDryRun ==
    /\ pc = "dry_run"
    /\ stdout' = IF dry_run THEN Append(stdout, prompt) ELSE stdout
    /\ pc' = "call"
    /\ UNCHANGED <<source, examples_dirs, dry_run, env_keys, member_markdowns, examples,
                   examples_block, prompt, report_md, stderr, out_file, llm_requests,
                   exit_code, folder, weeks, dirs_done, chunks_seen, first_week,
                   llm_response>>

\* CallLLM that sends the request again after a call without result
CallLLMRetry ==
    /\ pc = "call"
    /\ \E resp \in Responses :
        /\ llm_response' = resp
        /\ report_md' = call_llm(resp).value
        /\ stdout' = stdout \o call_llm(resp).printed
        /\ pc' = IF call_llm(resp).value.none /\ llm_requests = <<>> THEN "call" ELSE "write"
    /\ llm_requests' = Append(llm_requests, prompt)
    /\ UNCHANGED <<source, examples_dirs, dry_run, env_keys, member_markdowns, examples,
                   examples_block, prompt, stderr, out_file, exit_code,
                   folder, weeks, dirs_done, chunks_seen, first_week>>

\* line 294: _run awaits call_llm, which sends one request (lines 188-193)
\* and handles whatever the provider answers
CallLLM ==
    /\ pc = "call"
    /\ \E resp \in Responses :
        /\ llm_response' = resp
        /\ report_md' = call_llm(resp).value
        /\ stdout' = stdout \o call_llm(resp).printed
    /\ llm_requests' = Append(llm_requests, prompt)
    /\ pc' = "write"
    /\ UNCHANGED <<source, examples_dirs, dry_run, env_keys, member_markdowns, examples,
                   examples_block, prompt, stderr, out_file, exit_code,
                   folder, weeks, dirs_done, chunks_seen, first_week>>

\* WriteReport that tests  report_md is not None  instead of its truth value
WriteReportNotNone ==
    /\ pc = "write"
    /\ out_file' = IF ~report_md.none
                   THEN [exists |-> TRUE, text |-> report_md.text]
                   ELSE out_file
    /\ stdout' = Append(stdout, REPORT_WRITTEN)
    /\ exit_code' = 0
    /\ pc' = "exited"
    /\ UNCHANGED <<source, examples_dirs, dry_run, env_keys, member_markdowns, examples,
                   examples_block, prompt, report_md, stderr, llm_requests,
                   folder, weeks, dirs_done, chunks_seen, first_week, llm_response>>

\* lines 295-298, and the process ends
WriteReport ==
    /\ pc = "write"
    /\ out_file' = IF Truthy(report_md)
                   THEN [exists |-> TRUE, text |-> report_md.text]
                   ELSE out_file
    /\ stdout' = Append(stdout, REPORT_WRITTEN)
    /\ exit_code' = 0
    /\ pc' = "exited"
    /\ UNCHANGED <<source, examples_dirs, dry_run, env_keys, member_markdowns, examples,
                   examples_block, prompt, report_md, stderr, llm_requests,
                   folder, weeks, dirs_done, chunks_seen, first_week, llm_response>>

Next ==
    \/ CheckSource
    \/ GatherReports
    \/ BuildRunPrompt
    \/ PrintIfDryRun
    \/ CallLLM
    \/ WriteReport

Spec == Init /\ [][Next]_vars

-----------------------------------------------------------------------------
(* Properties of a run                                                     *)

Range(q) == {q[i] : i \in 1..Len(q)}

\* name is <non-empty name>gongzuobaogao-<8 digits>.<docx|doc|md>
IsReportName(name) ==
    \E k \in 1..Len(name), ext \in Range(EXTENSIONS) :
        /\ Len(name) = k + Len(REPORT_DASH) + 8 + 1 + Len(ext)
        /\ SubSeq(name, k + 1, k + Len(REPORT_DASH)) = REPORT_DASH
        /\ \A j \in 1..8 : name[k + Len(REPORT_DASH) + j] \in Digits
        /\ name[k + Len(REPORT_DASH) + 9] = "."
        /\ SubSeq(name, k + Len(REPORT_DASH) + 10, Len(name)) = ext

ReportFiles(dir) ==
    {i \in 1..Len(dir.files) : dir.files[i].is_file /\ IsReportName(dir.files[i].name)}

\* the run passes validation: the source directory exists and holds a
\* member report with text in it
Validated ==
    /\ source.exists
    /\ \E i \in ReportFiles(source) :
          source.files[i].ok /\ \E j \in 1..Len(source.files[i].text) :
                                   source.files[i].text[j] \notin Whitespace

\* the provider answered with a first choice whose message has non-empty text
AnsweredText ==
    /\ ~llm_response.raises
    /\ llm_response.choices = "list"
    /\ llm_response.items # <<>>
    /\ llm_response.items[1].message = "some"
    /\ ~llm_response.items[1].content.none
    /\ llm_response.items[1].content.text # <<>>

\* the request raised, or taking the response apart did
CallRaised == llm_response.raises \/ llm_response.choices = "scalar"

Called == pc \in {"write", "exited"} /\ llm_requests # <<>>

\* C1: the output file changes only when the model call returned non-empty
\* text, and then it holds exactly that text; a failed call or a missing or
\* empty content leaves the path as it was.
C1_OutputOnlyReturnedText ==
    /\ [][out_file' # out_file =>
            /\ AnsweredText
            /\ out_file' = [exists |-> TRUE, text |-> llm_response.items[1].content.text]]_vars
    /\ []((pc = "exited" /\ exit_code = 0 /\ AnsweredText) =>
            out_file = [exists |-> TRUE, text |-> llm_response.items[1].content.text])

C1_Witness ==
    /\ pc = "exited"
    /\ AnsweredText
    /\ out_file = [exists |-> TRUE, text |-> REPLY]

C3_FatalWithoutReports ==
    /\ []((~source.exists \/ ReportFiles(source) = {}) =>
            /\ pc \in {"start", "gather", "exited"}
            /\ pc # "exited" => ENABLED Next
            /\ pc = "exited" => exit_code # 0
            /\ prompt = <<>>
            /\ stdout = <<>>
            /\ llm_requests = <<>>)
    /\ [][(~source.exists \/ ReportFiles(source) = {}) => out_file' = out_file]_vars

C3_Witness ==
    /\ pc = "exited"
    /\ exit_code = 1
    /\ source.exists
    /\ source.files # <<>>
    /\ ReportFiles(source) = {}
    /\ out_file = NoFile

\* C4 as claimed: with no provider API key set the run ends in a fatal error
\* before any request is sent to the model.
C4_NoKeyNoRequest ==
    env_keys \cap PROVIDER_KEYS = {} =>
        /\ llm_requests = <<>>
        /\ pc = "exited" => exit_code # 0

\* C5 as claimed: with --dry-run no request is sent to the model and the
\* output path is not written.
C5_DryRunNoRequest ==
    dry_run => (llm_requests = <<>> /\ report_md = None /\ out_file \in {NoFile, OldFile})

-----------------------------------------------------------------------------
(* Properties of collect_examples_from_dirs and of the prompt              *)

DatesOf(ws) == {ws[i].date : i \in 1..Len(ws)}
NoRepeat(q) == \A i, j \in 1..Len(q) : q[i] = q[j] => i = j

\* one ExampleWeek per date found, holding as a set the chunks the
\* directories had for the date, and the team report of the first directory
\* that had the date
OnePerDate ==
    /\ \A i, j \in 1..Len(examples) : examples[i].date = examples[j].date => i = j
    /\ DatesOf(examples) = {p[1] : p \in chunks_seen}
    /\ \A i \in 1..Len(examples) :
        /\ Range(examples[i].member_reports) =
               {p[2] : p \in {q \in chunks_seen : q[1] = examples[i].date}}
        /\ examples[i].team_report # <<>>
        /\ \E fw \in first_week :
              fw.date = examples[i].date /\ fw.team_report = examples[i].team_report

\* C7 as claimed: OnePerDate, and no text appears twice in a member-chunk
\* list, whatever duplicates the directories hold.
C7_NoTextTwice ==
    /\ OnePerDate
    /\ \A i \in 1..Len(examples) : NoRepeat(examples[i].member_reports)

\* C7 amended: OnePerDate, and a member-chunk list is the list of the first
\* directory that had the date, kept as it was (duplicates included),
\* followed by the texts of later directories that were not yet in the
\* list, each once.
C7_FirstListThenNewTexts ==
    /\ OnePerDate
    /\ \A i \in 1..Len(examples) : \E fw \in first_week :
        LET mr == examples[i].member_reports
            n == Len(fw.member_reports)
        IN  /\ fw.date = examples[i].date
            /\ n <= Len(mr)
            /\ SubSeq(mr, 1, n) = fw.member_reports
            /\ \A j \in (n + 1)..Len(mr) : \A k \in 1..Len(mr) : mr[j] = mr[k] => j = k

\* two directories had the same date; the first held the same chunk twice,
\* the second brought a new one
C7_Witness ==
    /\ dirs_done >= 2
    /\ \E i \in 1..Len(examples) : \E fw \in first_week :
        /\ fw.date = examples[i].date
        /\ ~NoRepeat(fw.member_reports)
        /\ Len(examples[i].member_reports) > Len(fw.member_reports)

\* the dates of the EXAMPLE_WEEK blocks of a few-shot block, in order
BlockDates(block) ==
    LET at == {i \in 1..Len(block) : block[i] = EXAMPLE_OPEN}
        nth(k) == CHOOSE i \in at : Cardinality({j \in at : j <= i}) = k
    IN  [k \in 1..Cardinality(at) |-> SubSeq(block, nth(k) + 1, nth(k) + 8)]

PositionsOf(q, x) == {i \in 1..Len(q) : q[i] = x}

\* C8: the EXAMPLE_WEEK blocks carry the dates of the merged weeks in
\* strictly descending order; no week gives the empty string, and then the
\* prompt has no FEW-SHOT EXAMPLES header; a non-empty block stands right
\* under that header, before TARGET INPUT.
C8_DescendingFewShot ==
    /\ pc \in {"prompt", "built"} =>
        LET ds == BlockDates(examples_block)
        IN  /\ Len(ds) = Len(examples)
            /\ Range(ds) = DatesOf(examples)
            /\ \A k \in 1..(Len(ds) - 1) : StrLess(ds[k + 1], ds[k])
            /\ examples = <<>> <=> examples_block = <<>>
    /\ pc = "built" =>
        /\ Cardinality(PositionsOf(prompt, TARGET_HEADER)) = 1
        /\ examples_block = <<>> => PositionsOf(prompt, FEW_SHOT_HEADER) = {}
        /\ examples_block # <<>> =>
            \E h \in PositionsOf(prompt, FEW_SHOT_HEADER) :
                /\ PositionsOf(prompt, FEW_SHOT_HEADER) = {h}
                /\ SubSeq(prompt, h + 2, h + 1 + Len(examples_block)) = examples_block
                /\ \A t \in PositionsOf(prompt, TARGET_HEADER) :
                      h + 1 + Len(examples_block) < t

\* the older week was merged first and the block lists it second
C8_Witness ==
    /\ pc = "built"
    /\ Len(examples) = 2
    /\ examples[1].date = DATE_1218
    /\ BlockDates(examples_block) = <<DATE_1225, DATE_1218>>

-----------------------------------------------------------------------------
(* Properties of collect_examples on one directory                         *)

Collected == pc \in {"gather", "gathered"}

\* the team-report candidates of the directory, in listing order
CandidateAt == {i \in 1..Len(folder.files) :
                   folder.files[i].is_file /\ Contains(folder.files[i].name, TEAM_REPORT_HINT)}
DatedAt(date) == {i \in CandidateAt : Contains(folder.files[i].name, date)}
First(S) == CHOOSE i \in S : \A j \in S : i <= j
TextAt(i) == load_markdown_from_file(folder.files[i])

\* the dates of the member reports that have text, in order of first appearance
RECURSIVE FirstOccurrences(_)
FirstOccurrences(q) ==
    IF q = <<>> THEN <<>>
    ELSE LET init == FirstOccurrences(SubSeq(q, 1, Len(q) - 1))
         IN  IF q[Len(q)] \in Range(init) THEN init ELSE Append(init, q[Len(q)])

HasText(r) == load_markdown_from_file(r.path) # <<>>

GroupDates ==
    LET rs == SelectSeq(iter_member_reports(folder.files), HasText)
    IN  FirstOccurrences([i \in 1..Len(rs) |-> rs[i].date])

\* the team report as the claim selects it: from a candidate whose name
\* holds the date, and from the first candidate only when there is none
ClaimedTeamTexts(date) ==
    IF DatedAt(date) # {} THEN {TextAt(i) : i \in DatedAt(date)}
    ELSE IF CandidateAt # {} THEN {TextAt(First(CandidateAt))}
    ELSE {<<>>}

\* the team report as amended: the text of the first candidate whose name
\* holds the date, and the text of the first candidate when there is no such
\* candidate or its text is empty
AmendedTeamText(date) ==
    LET dated == IF DatedAt(date) # {} THEN TextAt(First(DatedAt(date))) ELSE <<>>
    IN  IF dated # <<>> THEN dated
        ELSE IF CandidateAt # {} THEN TextAt(First(CandidateAt))
        ELSE <<>>

\* C9 as claimed: every week's team report comes from a candidate whose name
\* holds the week's date, the first candidate serving only when no candidate
\* name holds the date; a date group is a week exactly when that text is
\* non-empty.
C9_FallbackOnlyWithoutDated ==
    (Collected /\ folder.exists) =>
        /\ \A i \in 1..Len(weeks) :
            /\ weeks[i].team_report \in ClaimedTeamTexts(weeks[i].date)
            /\ weeks[i].team_report # <<>>
        /\ \A d \in Range(GroupDates) :
              d \in DatesOf(weeks) <=> ClaimedTeamTexts(d) # {<<>>}

\* C9 amended: the first candidate also serves when the first candidate whose
\* name holds the date has no text; the weeks are the date groups whose
\* selected text is non-empty, in order, each with that text.
C9_FallbackAlsoOnBlankDated ==
    (Collected /\ folder.exists) =>
        LET kept == SelectSeq(GroupDates, LAMBDA d : AmendedTeamText(d) # <<>>)
        IN  /\ Len(weeks) = Len(kept)
            /\ \A i \in 1..Len(weeks) :
                /\ weeks[i].date = kept[i]
                /\ weeks[i].team_report = AmendedTeamText(kept[i])
                /\ weeks[i].team_report # <<>>

\* a candidate name holds the date but that file has no text, and the week
\* has the text of the first candidate
C9_Witness ==
    /\ Collected
    /\ \E i \in 1..Len(weeks) :
        /\ DatedAt(weeks[i].date) # {}
        /\ TextAt(First(DatedAt(weeks[i].date))) = <<>>
        /\ weeks[i].team_report = TextAt(First(CandidateAt))

\* chunk is the member chunk of file f: "# ", the part of f's name before the
\* report marker, a blank line, and f's text
ChunkFrom(chunk, f) ==
    \E k \in 1..Len(f.name) :
        /\ MatchAt(f.name, k + 1, REPORT_DASH)
        /\ chunk = Chunk(SubSeq(f.name, 1, k), Strip(f.text))

\* C10 as claimed: no file whose name holds the team-report marker gives a
\* member chunk, neither in an ExampleWeek nor in the target input.
C10_TeamFilesNotMembers ==
    \A i \in CandidateAt :
        /\ \A w \in Range(weeks) : \A c \in Range(w.member_reports) :
              ~ChunkFrom(c, folder.files[i])
        /\ \A c \in Range(member_markdowns) : ~ChunkFrom(c, folder.files[i])

====
